---- MODULE Spec2Model ----
(***************************************************************************)
(* Model of the CITADEL blinded review application (src/app.py): the       *)
(* per-reviewer verdict store (one SQLite file per reviewer id), the       *)
(* export / import documents, and the Streamlit session controller         *)
(* (login, navigation, Save & Next, logout).                               *)
(*                                                                         *)
(* One browser session is modelled.  Every action is one user interaction: *)
(* the script run that handles the click, the handler, and the script run  *)
(* started by st.rerun().                                                  *)
(*                                                                         *)
(* Strings that the code inspects character by character (the login name)  *)
(* are tuples of one-character strings.  Optional values (Python None, a   *)
(* key absent from st.session_state, no uploaded file) are tuples of       *)
(* length at most one: << >> is "absent", <<x>> is "present with value x". *)
(***************************************************************************)
EXTENDS Integers, Sequences, FiniteSets, TLC

(* ---------------------------------------------------------------- bounds *)
\* number of review records, len(sample): 200 in the deployment
Total == 2
\* datetime.now() is a counter; a save is possible while now < MaxClock
MaxClock == 2

(* ------------------------------------------------------- optional values *)
None == << >>
Some(x) == <<x>>

(* ----------------------------------------------------------- record data *)
\* load_sample(): the records, in order; review_id runs 1..Total
sample == [i \in 1..Total |-> [review_id |-> i, pmc_id |-> "PMC", ref_number |-> i]]

total == Len(sample)

\* keys of verdict_options, in order
verdict_options == <<"fabricated", "citation_error", "unsure">>

\* what the reviewer submits with "Save & Next >": a key of verdict_options from the
\* radio, and the text of the notes area (empty, or some text)
FormInputs ==
  { [verdict |-> verdict_options[1], notes |-> ""],
    [verdict |-> verdict_options[2], notes |-> "n"] }

\* datetime.now().isoformat()
isoformat(t) == ToString(t)

(* ------------------------------------------------------------ login name *)
Whitespace == {" "}

RECURSIVE lstrip(_)
lstrip(s) == IF s # << >> /\ Head(s) \in Whitespace THEN lstrip(Tail(s)) ELSE s

RECURSIVE rstrip(_)
rstrip(s) ==
  IF s # << >> /\ s[Len(s)] \in Whitespace THEN rstrip(SubSeq(s, 1, Len(s) - 1)) ELSE s

\* str.strip()
strip(s) == rstrip(lstrip(s))

lower_char(c) == CASE c = "A" -> "a" [] c = "B" -> "b" [] OTHER -> c

\* str.lower()
lower(s) == [i \in 1..Len(s) |-> lower_char(s[i])]

\* str.replace(old, new) for one-character old and new
replace(s, old, new) == [i \in 1..Len(s) |-> IF s[i] = old THEN new ELSE s[i]]

\* rid = name.strip().lower().replace(" ", "_")
normalise(name) == replace(lower(strip(name)), " ", "_")

name_accepted_nostrip(name) == name # << >>

\* if name.strip():
name_accepted(name) == strip(name) # << >>

\* what the reviewer can type into the name field
Names == { << >>, <<" ">>, <<"a">>, <<" ", "A", " ">>, <<"b">> }

\* every identifier a name of Names can be turned into
StoreIds == {normalise(n) : n \in Names}

(* ---------------------------------------------------------- verdict store *)
\* a database file that does not exist
NoFile == [exists |-> FALSE, rows |-> {}]

get_verdicts_db_shared(reviewer_id) == CHOOSE p \in StoreIds : p # << >>

\* the path of the reviewer's database file, one per reviewer id
get_verdicts_db(reviewer_id) == reviewer_id

init_verdicts_db_recreate(d, reviewer_id) ==
  [d EXCEPT ![get_verdicts_db(reviewer_id)] = [exists |-> TRUE, rows |-> {}]]

\* CREATE TABLE IF NOT EXISTS verdicts
init_verdicts_db(d, reviewer_id) ==
  LET p == get_verdicts_db(reviewer_id)
  IN  IF d[p].exists THEN d ELSE [d EXCEPT ![p] = [exists |-> TRUE, rows |-> {}]]

MaxId(rows) ==
  IF rows = {} THEN 0
  ELSE CHOOSE m \in {r.review_id : r \in rows} : \A r \in rows : r.review_id <= m

insert_overwrite(rows, row) == {row}

insert_append(rows, row) == rows \cup {row}

insert_autoid(rows, row) ==
  rows \cup {[row EXCEPT !.review_id = MaxId(rows) + 1]}

\* INSERT OR REPLACE INTO verdicts: review_id is the primary key
insert_or_replace(rows, row) ==
  {r \in rows : r.review_id # row.review_id} \cup {row}

\* save_verdict(...): one INSERT OR REPLACE, then commit
save_verdict(d, reviewer_id, review_id, pmc_id, ref_number, verdict, notes, t) ==
  LET p == get_verdicts_db(reviewer_id)
      row == [review_id |-> review_id, pmc_id |-> pmc_id, ref_number |-> ref_number,
              verdict |-> verdict, notes |-> notes, reviewed_at |-> isoformat(t)]
  IN  IF d[p].exists THEN [d EXCEPT ![p].rows = insert_or_replace(@, row)] ELSE d

\* load_verdicts(reviewer_id): {review_id: {verdict, notes, reviewed_at}}
load_verdicts(d, reviewer_id) ==
  LET p == get_verdicts_db(reviewer_id)
      rows == IF d[p].exists THEN d[p].rows ELSE {}
  IN  [k \in {r.review_id : r \in rows} |->
         LET r == CHOOSE r \in rows : r.review_id = k
         IN  [verdict |-> r.verdict, notes |-> r.notes, reviewed_at |-> r.reviewed_at]]

\* sorted(keys): ascending
RECURSIVE sorted(_), sorted_descending(_)
sorted_descending(S) ==
  IF S = {} THEN << >>
  ELSE LET m == CHOOSE m \in S : \A x \in S : m >= x
       IN  <<m>> \o sorted_descending(S \ {m})

sorted(S) ==
  IF S = {} THEN << >>
  ELSE LET m == CHOOSE m \in S : \A x \in S : m <= x
       IN  <<m>> \o sorted(S \ {m})

\* json.dumps of a dict: the text of a JSON document
json_dumps(value) == [ok |-> TRUE, doc |-> value]

\* json.loads: raises on a text that is not JSON
json_loads(text) ==
  IF text.ok THEN [raised |-> FALSE, data |-> text.doc] ELSE [raised |-> TRUE]

export_without_reviewed_at(d, reviewer_id, t) ==
  LET verdicts == load_verdicts(d, reviewer_id)
      keys == sorted(DOMAIN verdicts)
  IN  json_dumps([reviewer |-> reviewer_id,
                  exported_at |-> isoformat(t),
                  total_reviewed |-> Cardinality(DOMAIN verdicts),
                  verdicts |-> [i \in 1..Len(keys) |->
                     [review_id |-> keys[i],
                      verdict |-> verdicts[keys[i]].verdict,
                      notes |-> verdicts[keys[i]].notes]]])

\* export_verdicts_json(reviewer_id)
export_verdicts_json(d, reviewer_id, t) ==
  LET verdicts == load_verdicts(d, reviewer_id)
      keys == sorted(DOMAIN verdicts)
  IN  json_dumps([reviewer |-> reviewer_id,
                  exported_at |-> isoformat(t),
                  total_reviewed |-> Cardinality(DOMAIN verdicts),
                  verdicts |-> [i \in 1..Len(keys) |->
                     [review_id |-> keys[i],
                      verdict |-> verdicts[keys[i]].verdict,
                      notes |-> verdicts[keys[i]].notes,
                      reviewed_at |-> verdicts[keys[i]].reviewed_at]]])

dict_get_absent(v, key, default) == default

\* v.get(key, default)
dict_get(v, key, default) == IF key \in DOMAIN v THEN v[key] ELSE default

\* the for loop of import_verdicts_json on the open connection: v["review_id"]
\* and v["verdict"] raise KeyError when the key is absent
RECURSIVE import_loop(_, _, _)
import_loop(rows, entries, count) ==
  IF entries = << >> THEN [raised |-> FALSE, rows |-> rows, count |-> count]
  ELSE LET v == Head(entries)
       IN  IF "review_id" \notin DOMAIN v \/ "verdict" \notin DOMAIN v
           THEN [raised |-> TRUE, rows |-> rows, count |-> count]
           ELSE import_loop(
                  insert_or_replace(rows,
                    [review_id |-> v["review_id"],
                     pmc_id |-> dict_get(v, "pmc_id", ""),
                     ref_number |-> dict_get(v, "ref_number", 0),
                     verdict |-> v["verdict"],
                     notes |-> dict_get(v, "notes", ""),
                     reviewed_at |-> dict_get(v, "reviewed_at", "")]),
                  Tail(entries), count + 1)

commit_partial(before, result) == result.rows

\* the rows of the table once the connection is gone: conn.commit() is reached
\* only when the loop did not raise, otherwise the open transaction is rolled back
commit_or_rollback(before, result) == IF result.raised THEN before ELSE result.rows

\* import_verdicts_json(reviewer_id, json_data)
import_verdicts_json(d, reviewer_id, json_data) ==
  LET p == get_verdicts_db(reviewer_id)
      parsed == json_loads(json_data)
  IN  IF parsed.raised \/ ~d[p].exists
      THEN [raised |-> TRUE, db |-> d, count |-> 0]
      ELSE LET result == import_loop(d[p].rows, dict_get(parsed.data, "verdicts", << >>), 0)
           IN  [raised |-> result.raised,
                db |-> [d EXCEPT ![p].rows = commit_or_rollback(@, result)],
                count |-> result.count]

\* the scan of get_next_unreviewed, from record number i
RECURSIVE scan_unreviewed(_, _, _)
scan_unreviewed(verdicts, i, n) ==
  IF i > n THEN 0
  ELSE IF i \notin DOMAIN verdicts THEN i
  ELSE scan_unreviewed(verdicts, i + 1, n)

get_next_unreviewed_range0(verdicts, n) == scan_unreviewed(verdicts, 0, n - 1)

\* get_next_unreviewed(verdicts, total); Python's None is 0 here ("next_unrev or 1"
\* and "if next_unrev:" treat both alike)
get_next_unreviewed(verdicts, n) == scan_unreviewed(verdicts, 1, n)

(* ------------------------------------------------------------ the session *)
VARIABLES
  reviewer_id,   \* st.session_state.reviewer_id: None or Some(rid)
  current_idx,   \* st.session_state.current_idx: None (key absent) or Some(index)
  db,            \* the database files of VERDICTS_DIR, by path
  now,           \* the clock read by datetime.now()
  last,          \* the interaction handled last (history, not program state)
  conns,         \* the open connection of every concurrent save_verdict call
  seen           \* what the concurrent load_verdicts call returned last

vars == <<reviewer_id, current_idx, db, now, last, conns, seen>>

initial_idx_first(verdicts) == 0

\* `(next_unrev or 1) - 1`
initial_idx(verdicts) ==
  LET next_unrev == get_next_unreviewed(verdicts, total)
  IN  (IF next_unrev # 0 THEN next_unrev ELSE 1) - 1

\* one run of the script below the login page: init_verdicts_db, load_verdicts and
\* the initialisation of current_idx; on the login page nothing is written
main_run(s) ==
  IF s.reviewer_id = None THEN s
  ELSE LET rid == s.reviewer_id[1]
           d == init_verdicts_db(s.db, rid)
           verdicts == load_verdicts(d, rid)
       IN  [reviewer_id |-> s.reviewer_id,
            current_idx |-> IF s.current_idx = None THEN Some(initial_idx(verdicts))
                            ELSE s.current_idx,
            db |-> d]

\* the session and the files as one value
State == [reviewer_id |-> reviewer_id, current_idx |-> current_idx, db |-> db]

\* the step of the one session: it ends in s, and no other call is under way
Becomes(s) ==
  /\ reviewer_id' = s.reviewer_id
  /\ current_idx' = s.current_idx
  /\ db' = s.db
  /\ UNCHANGED <<conns, seen>>

\* the main page is on screen: its buttons can be clicked
Reviewing == reviewer_id # None /\ current_idx # None

(* ------------------------------------------------------ uploaded documents *)
\* a backup that import accepts, written by another tool: an entry as an older
\* version exported it, without notes and reviewed_at, and an entry with a verdict
\* category this program does not offer, for a record beyond the sample
DocBackup ==
  json_dumps([reviewer |-> <<"c">>, exported_at |-> "x", total_reviewed |-> 2,
              verdicts |-> << [review_id |-> 1, verdict |-> "unsure"],
                              [review_id |-> total + 1, verdict |-> "duplicate",
                               notes |-> "n", reviewed_at |-> "x"] >>])

\* a valid entry followed by an entry without verdict
DocNoVerdict ==
  json_dumps([reviewer |-> <<"a">>, total_reviewed |-> 2,
              verdicts |-> << [review_id |-> 2, verdict |-> "fabricated", notes |-> "n",
                               reviewed_at |-> "x"],
                              [review_id |-> 1, notes |-> "n"] >>])

\* a valid entry followed by an entry without review_id
DocNoId ==
  json_dumps([reviewer |-> <<"a">>, total_reviewed |-> 2,
              verdicts |-> << [review_id |-> 1, verdict |-> "citation_error"],
                              [verdict |-> "unsure"] >>])

\* a file that is not JSON
DocGarbage == [ok |-> FALSE]

\* the files the reviewer can upload on the login page
Uploads == {DocBackup, DocNoVerdict, DocNoId, DocGarbage}

\* a document import_verdicts_json accepts
WellFormed(text) ==
  /\ text.ok
  /\ "verdicts" \in DOMAIN text.doc =>
       \A i \in 1..Len(text.doc.verdicts) :
         {"review_id", "verdict"} \subseteq DOMAIN text.doc.verdicts[i]

\* a name that is empty or made of whitespace only
Blank(name) == \A i \in 1..Len(name) : name[i] \in Whitespace

(* ----------------------------------------------------------------- login *)
\* the "Start Review" handler: `if name.strip():` and its else branch
start_review(s, name, uploaded) ==
  IF ~name_accepted(name) THEN [accepted |-> FALSE, raised |-> FALSE, count |-> 0, state |-> s]
  ELSE
  LET rid == normalise(name)
      d1 == init_verdicts_db(s.db, rid)
      s1 == [reviewer_id |-> Some(rid), current_idx |-> s.current_idx, db |-> d1]
  IN  IF uploaded = None
      THEN [accepted |-> TRUE, raised |-> FALSE, count |-> 0, state |-> main_run(s1)]
      ELSE LET imp == import_verdicts_json(d1, rid, uploaded[1])
           IN  IF imp.raised
               THEN [accepted |-> TRUE, raised |-> TRUE, count |-> imp.count,
                     state |-> [s1 EXCEPT !.db = imp.db]]
               ELSE [accepted |-> TRUE, raised |-> FALSE, count |-> imp.count,
                     state |-> main_run([s1 EXCEPT !.db = imp.db])]

\* "Start Review" with the name typed and, optionally, an uploaded file
LoginWith(name, uploaded) ==
  /\ reviewer_id = None
  /\ LET r == start_review(main_run(State), name, uploaded)
         p == normalise(name)
     IN  /\ Becomes(r.state)
         /\ last' = [op |-> "login", blank |-> Blank(name), accepted |-> r.accepted,
                     imported |-> (uploaded # None), raised |-> r.raised, count |-> r.count,
                     fresh |-> (db[p].rows = {})]
  /\ UNCHANGED now

Login ==
  \E name \in Names, uploaded \in {None} \cup {Some(u) : u \in Uploads} :
    LoginWith(name, uploaded)

\* the script run after a login whose import raised (any interaction starts it):
\* the main page comes up.  A run of the script in any other state writes nothing.
Rerun ==
  /\ reviewer_id # None
  /\ current_idx = None
  /\ Becomes(main_run(State))
  /\ last' = [op |-> "rerun"]
  /\ UNCHANGED now

(* ---------------------------------------------------------- the main page *)
prev_stays(s) == s

\* "< Prev": the button is disabled at index 0
prev(s) == [s EXCEPT !.current_idx = Some(IF s.current_idx[1] - 1 > 0
                                          THEN s.current_idx[1] - 1 ELSE 0)]

advance_unguarded(s) == [s EXCEPT !.current_idx = Some(s.current_idx[1] + 1)]

\* `if idx < total - 1: current_idx = idx + 1`, of "Save & Next >" and of "Skip >"
advance(s) ==
  IF s.current_idx[1] < total - 1
  THEN [s EXCEPT !.current_idx = Some(s.current_idx[1] + 1)]
  ELSE s

entry_first(s) == sample[1]

\* the record on screen: entry = sample[idx], a zero-based index
entry(s) == sample[s.current_idx[1] + 1]

\* "Save & Next >" with the verdict of the radio and the notes of the text area
save_and_next(s, verdict, notes, t) ==
  advance([s EXCEPT !.db = save_verdict(s.db, s.reviewer_id[1], entry(s).review_id,
                                        entry(s).pmc_id, entry(s).ref_number,
                                        verdict, notes, t)])

skip_and_save(s) == save_and_next(s, verdict_options[1], "", 0)

\* "Skip >"
skip(s) == advance(s)

\* st.number_input(min_value, max_value): the widget keeps the value in range
number_input(typed, min_value, max_value) ==
  IF typed < min_value THEN min_value
  ELSE IF typed > max_value THEN max_value
  ELSE typed

\* "Go": current_idx = jump - 1
go(s, jump) == [s EXCEPT !.current_idx = Some(jump - 1)]

jump_unrev_first(s) == [s EXCEPT !.current_idx = Some(0)]

\* "Jump to next unreviewed": current_idx = next_unrev - 1
jump_unrev(s) ==
  [s EXCEPT !.current_idx =
     Some(get_next_unreviewed(load_verdicts(s.db, s.reviewer_id[1]), total) - 1)]

logout_keep_idx(s) == [s EXCEPT !.reviewer_id = None]

\* "Logout": reviewer_id = None and current_idx deleted
logout(s) == [s EXCEPT !.reviewer_id = None, !.current_idx = None]

Prev ==
  /\ Reviewing
  /\ current_idx[1] # 0
  /\ Becomes(main_run(prev(main_run(State))))
  /\ last' = [op |-> "prev"]
  /\ UNCHANGED now

SaveNextWith(verdict, notes) ==
  /\ Reviewing
  /\ now < MaxClock
  /\ LET before == load_verdicts(db, reviewer_id[1])
         rid == entry(State).review_id
     IN  /\ Becomes(main_run(save_and_next(main_run(State), verdict, notes, now)))
         /\ last' = [op |-> "save", review_id |-> rid, verdict |-> verdict,
                     replaced |-> (rid \in DOMAIN before /\ before[rid].verdict # verdict)]
  /\ now' = now + 1

SaveNext == \E f \in FormInputs : SaveNextWith(f.verdict, f.notes)

Skip ==
  /\ Reviewing
  /\ Becomes(main_run(skip(main_run(State))))
  /\ last' = [op |-> "skip", from |-> current_idx[1]]
  /\ UNCHANGED now

GoTo(typed) ==
  /\ Reviewing
  /\ Becomes(main_run(go(main_run(State), number_input(typed, 1, total))))
  /\ last' = [op |-> "go", typed |-> typed]
  /\ UNCHANGED now

Go == \E typed \in 0..(total + 1) : GoTo(typed)

\* the button is shown only `if next_unrev:`
JumpUnrev ==
  /\ Reviewing
  /\ get_next_unreviewed(load_verdicts(db, reviewer_id[1]), total) # 0
  /\ Becomes(main_run(jump_unrev(main_run(State))))
  /\ last' = [op |-> "jump_unrev"]
  /\ UNCHANGED now

\* the download button is shown only `if reviewed_count > 0`; the download writes nothing
Export ==
  /\ Reviewing
  /\ DOMAIN load_verdicts(db, reviewer_id[1]) # {}
  /\ Becomes(main_run(State))
  /\ last' = [op |-> "export"]
  /\ UNCHANGED now

Logout ==
  /\ Reviewing
  /\ Becomes(main_run(logout(main_run(State))))
  /\ last' = [op |-> "logout"]
  /\ UNCHANGED now

\* the sessions (browser tabs) that may call save_verdict at the same time
Tabs == {"tab1", "tab2"}

\* a save_verdict call that is not under way
Closed == [pc |-> "closed", rows |-> {}]

Init ==
  /\ reviewer_id = None
  /\ current_idx = None
  /\ db = [p \in StoreIds |-> NoFile]
  /\ now = 0
  /\ last = [op |-> "start"]
  /\ conns = [w \in Tabs |-> Closed]
  /\ seen = << >>

Next ==
  \/ Login
  \/ Rerun
  \/ Prev
  \/ SaveNext
  \/ Skip
  \/ Go
  \/ JumpUnrev
  \/ Export
  \/ Logout

Spec == Init /\ [][Next]_vars

(* ------------------------------------- two tabs of one reviewer, step by step *)
\* save_verdict and load_verdicts of two sessions of the reviewer "a", one SQLite
\* call at a time.  A connection that has executed its INSERT OR REPLACE holds the
\* write lock of the file and its change stays in its own transaction until
\* conn.commit(); a second writer waits for the lock and raises "database is
\* locked" when it does not get it; a SELECT of another connection reads the
\* committed rows.
TabReviewer == <<"a">>

InitTabs ==
  /\ reviewer_id = Some(TabReviewer)
  /\ current_idx = Some(0)
  /\ db = init_verdicts_db([p \in StoreIds |-> NoFile], TabReviewer)
  /\ now = 0
  /\ last = [op |-> "tabs", issued |-> {}]
  /\ conns = [w \in Tabs |-> Closed]
  /\ seen = << >>

\* the write lock of the file is free
LockFree == \A w \in Tabs : conns[w].pc # "open"

\* conn.execute(INSERT OR REPLACE ...) of save_verdict in tab w: the row is in the
\* transaction of the connection
TabExecute(w, i, f) ==
  /\ conns[w].pc = "closed"
  /\ LockFree
  /\ now < MaxClock
  /\ LET after == save_verdict(db, TabReviewer, sample[i].review_id, sample[i].pmc_id,
                               sample[i].ref_number, f.verdict, f.notes, now)
         rows == after[get_verdicts_db(TabReviewer)].rows
     IN  /\ conns' = [conns EXCEPT ![w] = [pc |-> "open", rows |-> rows]]
         /\ last' = [last EXCEPT !.issued = @ \cup
                       {[review_id |-> sample[i].review_id, verdict |-> f.verdict,
                         notes |-> f.notes, reviewed_at |-> isoformat(now)]}]
  /\ now' = now + 1
  /\ UNCHANGED <<reviewer_id, current_idx, db, seen>>

\* conn.execute of save_verdict in tab w while another tab holds the lock: after the
\* busy timeout it raises, and nothing is written
TabBusy(w) ==
  /\ conns[w].pc = "closed"
  /\ ~LockFree
  /\ conns' = [conns EXCEPT ![w] = [pc |-> "raised", rows |-> {}]]
  /\ UNCHANGED <<reviewer_id, current_idx, db, now, last, seen>>

\* conn.commit() and conn.close() of save_verdict in tab w
TabCommit(w) ==
  /\ conns[w].pc = "open"
  /\ db' = [db EXCEPT ![get_verdicts_db(TabReviewer)].rows = conns[w].rows]
  /\ conns' = [conns EXCEPT ![w] = Closed]
  /\ UNCHANGED <<reviewer_id, current_idx, now, last, seen>>

\* the script run of tab w ends after the exception
TabRaised(w) ==
  /\ conns[w].pc = "raised"
  /\ conns' = [conns EXCEPT ![w] = Closed]
  /\ UNCHANGED <<reviewer_id, current_idx, db, now, last, seen>>

\* load_verdicts of any tab, at any moment
TabLoad ==
  /\ seen' = load_verdicts(db, TabReviewer)
  /\ UNCHANGED <<reviewer_id, current_idx, db, now, last, conns>>

NextTabs ==
  \/ \E w \in Tabs, i \in 1..total, f \in FormInputs : TabExecute(w, i, f)
  \/ \E w \in Tabs : TabBusy(w)
  \/ \E w \in Tabs : TabCommit(w)
  \/ \E w \in Tabs : TabRaised(w)
  \/ TabLoad

SpecTabs == InitTabs /\ [][NextTabs]_vars

(* ------------------------------------------ logging in under typed names *)
\* The login page with names of several words: every name of up to MaxNameLen
\* characters over NameChars can be typed, no file is uploaded, and at most
\* MaxStores database files come to exist.
MaxNameLen == 4

MaxStores == 2

NameChars == {" ", "a", "A"}

TypedNames == UNION {[1..n -> NameChars] : n \in 0..MaxNameLen}

TypedIds == {normalise(n) : n \in TypedNames}

InitNames ==
  /\ reviewer_id = None
  /\ current_idx = None
  /\ db = [p \in TypedIds |-> NoFile]
  /\ now = 0
  /\ last = [op |-> "start"]
  /\ conns = [w \in Tabs |-> Closed]
  /\ seen = << >>

NameLogin ==
  \E name \in TypedNames :
    /\ \/ db[normalise(name)].exists
       \/ Cardinality({p \in TypedIds : db[p].exists}) < MaxStores
    /\ LoginWith(name, None)

NextNames ==
  \/ NameLogin
  \/ Logout

SpecNames == InitNames /\ [][NextNames]_vars

(* ------------------------------------------- a reviewer working to the end *)
\* One session of the reviewer "a" in which the reviewer follows a plan: either
\* "Jump to next unreviewed" and "Save & Next >" in turn, from any index and any
\* store a login can have found, or "Save & Next >" again and again from a fresh
\* session.  last holds the plan, the button clicked last and the number of saves.
Plans == {"alternate", "consecutive"}

\* the store a login with a backup of the records ids leaves in a fresh file; the
\* backup says "fabricated" for the records fab and "unsure" for the others
StoreWith(ids, fab) ==
  LET keys == sorted(ids)
      doc == json_dumps([verdicts |-> [j \in 1..Len(keys) |->
                                         [review_id |-> keys[j],
                                          verdict |-> IF keys[j] \in fab THEN verdict_options[1]
                                                      ELSE verdict_options[3]]]])
  IN  import_verdicts_json(init_verdicts_db([p \in StoreIds |-> NoFile], TabReviewer),
                           TabReviewer, doc).db

InitProgress ==
  \E plan \in Plans, ids \in SUBSET (1..(total + 1)), i \in 0..(total - 1) :
  \E fab \in SUBSET ids :
    /\ plan = "consecutive" => (ids = {} /\ i = 0)
    /\ reviewer_id = Some(TabReviewer)
    /\ current_idx = Some(i)
    /\ db = StoreWith(ids, fab)
    /\ now = 0
    /\ last = [op |-> "start", plan |-> plan, saved |-> 0]
    /\ conns = [w \in Tabs |-> Closed]
    /\ seen = << >>

\* "Jump to next unreviewed", clicked after the login or after a save
ProgressJump ==
  /\ last.plan = "alternate"
  /\ last.op # "jump_unrev"
  /\ get_next_unreviewed(load_verdicts(db, reviewer_id[1]), total) # 0
  /\ Becomes(main_run(jump_unrev(main_run(State))))
  /\ last' = [last EXCEPT !.op = "jump_unrev"]
  /\ UNCHANGED now

\* "Save & Next >", clicked after a jump or, in the other plan, after a save; the
\* reviewer saves at most as often as there are records
ProgressSave(verdict, notes) ==
  /\ \/ last.plan = "alternate" /\ last.op = "jump_unrev"
     \/ last.plan = "consecutive"
  /\ last.saved < total
  /\ Becomes(main_run(save_and_next(main_run(State), verdict, notes, now)))
  /\ last' = [last EXCEPT !.op = "save", !.saved = @ + 1]
  /\ now' = now + 1

NextProgress ==
  \/ ProgressJump
  \/ \E f \in FormInputs : ProgressSave(f.verdict, f.notes)

\* the reviewer keeps clicking as long as the plan has a button to click
SpecProgress == InitProgress /\ [][NextProgress]_vars /\ WF_vars(NextProgress)

TypeOK ==
  /\ reviewer_id \in {None} \cup {Some(r) : r \in StoreIds}
  /\ current_idx \in {None} \cup {Some(i) : i \in 0..(total - 1)}
  /\ now \in 0..MaxClock

(* ------------------------------------------------------------------ claims *)
\* the rows a reviewer's table holds for one review_id
RowsOf(p, k) == {r \in db[p].rows : r.review_id = k}

\* the review_ids that occur in any table
StoredIds == UNION {{r.review_id : r \in db[p].rows} : p \in StoreIds}

\* the smallest element of a non-empty set of numbers
Least(S) == CHOOSE m \in S : \A x \in S : m <= x

\* the record numbers of 1..n that have no verdict in v
Unreviewed(v, n) == {i \in 1..n : i \notin DOMAIN v}

\* C1: after Save & Next with verdict V for the record on screen, load_all of the
\* reviewer has an entry for that review_id with verdict V, also when the save
\* replaced an entry with another verdict; no table ever holds two rows for one
\* review_id.
C1_SaveThenLoad ==
  /\ last.op = "save" =>
       LET v == load_verdicts(db, reviewer_id[1])
       IN  /\ last.review_id \in DOMAIN v
           /\ v[last.review_id].verdict = last.verdict
           /\ v[last.review_id].reviewed_at = isoformat(now - 1)
  /\ \A p \in StoreIds : \A k \in StoredIds : Cardinality(RowsOf(p, k)) <= 1

\* a save has replaced the entry of a record that had another verdict
C1_Witness ==
  /\ last.op = "save"
  /\ last.replaced
  /\ load_verdicts(db, reviewer_id[1])[last.review_id].verdict = last.verdict

\* a store created by init_verdicts_db and nothing else
FreshStore(b) == init_verdicts_db([p \in StoreIds |-> NoFile], b)

\* C2: for every store A the saves and imports have produced, the export of A
\* imported into a fresh store B gives load_all(B) = load_all(A): same review_ids,
\* and for each the same verdict, notes and reviewed_at.
C2_RoundTrip ==
  reviewer_id # None =>
    LET a == reviewer_id[1]
    IN  \A b \in StoreIds \ {a} :
          LET imp == import_verdicts_json(FreshStore(b), b, export_verdicts_json(db, a, now))
          IN  /\ ~imp.raised
              /\ load_verdicts(imp.db, b) = load_verdicts(db, a)

\* the store of the reviewer holds two saved entries, one with notes and one
\* without, and its rows are not the rows the import of its export gives
C2_Witness ==
  /\ reviewer_id # None
  /\ LET a == reviewer_id[1]
         v == load_verdicts(db, a)
     IN  /\ Cardinality(DOMAIN v) >= 2
         /\ \E k \in DOMAIN v : v[k].notes = "n" /\ v[k].reviewed_at = isoformat(0)
         /\ \E k \in DOMAIN v : v[k].notes = "" /\ v[k].reviewed_at = isoformat(1)
         /\ db[a].rows #
              import_verdicts_json(FreshStore(a), a, export_verdicts_json(db, a, now)).db[a].rows

\* C3: importing a well-formed document a second time into the same store leaves
\* load_all as the first import left it, whatever the store held before.
C3_ImportIdempotent ==
  reviewer_id # None =>
    \A u \in Uploads :
      WellFormed(u) =>
        LET p == reviewer_id[1]
            once == import_verdicts_json(db, p, u)
            twice == import_verdicts_json(once.db, p, u)
        IN  /\ ~once.raised /\ ~twice.raised
            /\ load_verdicts(twice.db, p) = load_verdicts(once.db, p)

\* a login has imported the backup into a store that held a saved verdict for the
\* same record, and importing it once more changes nothing
C3_Witness ==
  /\ last.op = "login" /\ last.imported /\ ~last.raised /\ ~last.fresh
  /\ last.count = 2
  /\ \E k \in DOMAIN load_verdicts(db, reviewer_id[1]) :
       load_verdicts(db, reviewer_id[1])[k].reviewed_at = isoformat(0)
  /\ import_verdicts_json(db, reviewer_id[1], DocBackup).db = db

\* C4: whenever the main page is on screen current_idx is within 0..total-1; Skip
\* and Save & Next at the last index leave it there, and the Prev handler at
\* index 0 yields 0.
C4_IndexInBounds ==
  /\ current_idx # None => current_idx[1] \in 0..(total - 1)
  /\ (last.op = "skip" /\ last.from = total - 1) => current_idx = Some(total - 1)
  /\ (last.op = "save" /\ last.review_id = sample[total].review_id) =>
        current_idx = Some(total - 1)
  /\ Reviewing => prev([State EXCEPT !.current_idx = Some(0)]).current_idx = Some(0)

\* Skip was clicked at the last index
C4_Witness ==
  /\ last.op = "skip"
  /\ last.from = total - 1
  /\ current_idx = Some(total - 1)

\* C5: get_next_unreviewed(verdicts, n) is the smallest number of 1..n that is no
\* key of verdicts, and the "none" value exactly when all of 1..n are keys; it is
\* 1 for the empty map and 2 for a map with the keys 1 and 3.
C5_NextUnreviewed ==
  /\ reviewer_id # None =>
       \A n \in 0..(total + 1) :
         LET v == load_verdicts(db, reviewer_id[1])
             got == get_next_unreviewed(v, n)
         IN  /\ (Unreviewed(v, n) = {}) <=> (got = 0)
             /\ Unreviewed(v, n) # {} => got = Least(Unreviewed(v, n))
  /\ get_next_unreviewed([k \in {} |-> ""], total) = 1
  /\ get_next_unreviewed([k \in {1, 3} |-> ""], total) = 2

\* a reachable store with verdicts for the records 1 and 3 and none for 2
C5_Witness ==
  /\ reviewer_id # None
  /\ DOMAIN load_verdicts(db, reviewer_id[1]) = {1, 3}
  /\ get_next_unreviewed(load_verdicts(db, reviewer_id[1]), total + 1) = 2

\* the index a session starts at, from the verdicts of the store
ResumeIndex(v) == IF Unreviewed(v, total) = {} THEN 0 ELSE Least(Unreviewed(v, total)) - 1

\* the interaction handled last was the first run of the main page of a session
SessionStarted ==
  \/ last.op = "login" /\ last.accepted /\ ~last.raised
  \/ last.op = "rerun"

\* C6: when a session starts (a login, with or without an imported document, first
\* or after a logout; or the first run of the main page after a login whose import
\* failed) current_idx is the index of the first unreviewed record of the store as
\* it is then, or 0 when every record is reviewed.
C6_ResumePoint ==
  SessionStarted =>
    /\ reviewer_id # None
    /\ current_idx = Some(ResumeIndex(load_verdicts(db, reviewer_id[1])))

\* a login that imported a document starts behind the imported verdict
C6_Witness ==
  /\ last.op = "login" /\ last.imported /\ ~last.raised /\ last.fresh
  /\ current_idx = Some(1)

NavOps == {"prev", "skip", "go", "jump_unrev"}

\* C7: Prev, Skip, Go and Jump-to-next-unreviewed leave every store as it is; the
\* rows of a store change only by Save & Next or by a login that imports.
C7_NavigationNeverWrites ==
  [][/\ last'.op \in NavOps => db' = db
     /\ (\E p \in StoreIds : db'[p].rows # db[p].rows) =>
          (last'.op = "save" \/ (last'.op = "login" /\ last'.imported))]_vars

\* a navigation button was clicked in a session whose store holds a verdict
C7_Witness ==
  /\ last.op = "jump_unrev"
  /\ reviewer_id # None
  /\ db[reviewer_id[1]].rows # {}

\* C8: a login whose import raises (a file that is not JSON, an entry without
\* review_id or without verdict behind valid entries) leaves the rows of every
\* store as they were.
C8_ImportAllOrNothing ==
  [][(last'.op = "login" /\ last'.raised) =>
       \A p \in StoreIds : db'[p].rows = db[p].rows]_vars

\* an import raised after it had executed an insert, into a store with verdicts
C8_Witness ==
  /\ last.op = "login" /\ last.raised /\ last.count > 0
  /\ reviewer_id # None
  /\ db[reviewer_id[1]].rows # {}

\* C9: Start Review with an empty or all-whitespace name changes nothing: no
\* reviewer_id, no store created or initialised, no document imported.
C9_EmptyNameRejected ==
  [][(last'.op = "login" /\ last'.blank) =>
       /\ reviewer_id' = None
       /\ UNCHANGED <<reviewer_id, current_idx, db>>]_vars

\* Start Review was clicked with a blank name and an uploaded file
C9_Witness ==
  /\ last.op = "login" /\ last.blank /\ last.imported
  /\ ~last.accepted
  /\ reviewer_id = None

\* C10: a step of the session changes no store but the store of the reviewer who
\* is logged in before or after it.
C10_StoresIsolated ==
  [][\A p \in StoreIds :
       (reviewer_id # Some(p) /\ reviewer_id' # Some(p)) => db'[p] = db[p]]_vars

\* a reviewer saved while another reviewer's store holds verdicts
C10_Witness ==
  /\ last.op = "save"
  /\ \E p \in StoreIds : reviewer_id # Some(p) /\ db[p].rows # {}

\* the load_all entries the saves issued so far can have written for review_id k
IssuedFor(k) ==
  {[verdict |-> r.verdict, notes |-> r.notes, reviewed_at |-> r.reviewed_at] :
     r \in {x \in last.issued : x.review_id = k}}

\* C11: with two tabs of one reviewer saving at the same time and a load running
\* between their steps, the table never holds two rows for a review_id, and every
\* entry a load returns is the verdict, notes and reviewed_at of one single save.
C11_AtomicSaves ==
  /\ \A k \in 1..total : Cardinality(RowsOf(TabReviewer, k)) <= 1
  /\ \A k \in DOMAIN seen : seen[k] \in IssuedFor(k)
  /\ \A k \in DOMAIN load_verdicts(db, TabReviewer) :
       load_verdicts(db, TabReviewer)[k] \in IssuedFor(k)

\* a load returned the committed save of one tab for a record while the other
\* tab's save of the same record, with another verdict, was executed and not
\* committed, and a third save had failed on the lock
C11_Witness ==
  /\ \E w \in Tabs : conns[w].pc = "open"
  /\ \E w \in Tabs : conns[w].pc = "raised"
  /\ \E k \in DOMAIN seen :
       /\ Cardinality(IssuedFor(k)) = 2
       /\ seen = load_verdicts(db, TabReviewer)

\* the review_ids stored in the store of p
IdsOf(p) == {r.review_id : r \in db[p].rows}

\* the document export_verdicts_json gives for the store of p
ExportOf(p) == json_loads(export_verdicts_json(db, p, now)).data

\* C12: the export of a store names the reviewer, lists one entry for every stored
\* review_id and no other, in strictly ascending order of review_id, and gives the
\* length of that list as total_reviewed; exporting writes to no store.
C12_ExportShape ==
  [][last'.op = "export" =>
       /\ db' = db
       /\ \A p \in StoreIds :
            LET e == ExportOf(p)
            IN  /\ e.reviewer = p
                /\ {e.verdicts[i].review_id : i \in 1..Len(e.verdicts)} = IdsOf(p)
                /\ \A i \in 1..Len(e.verdicts) : \A j \in 1..Len(e.verdicts) :
                     i < j => e.verdicts[i].review_id < e.verdicts[j].review_id
                /\ e.total_reviewed = Len(e.verdicts)]_vars

\* the reviewer has exported a store of three entries, one of them imported
C12_Witness ==
  /\ last.op = "export"
  /\ Cardinality(IdsOf(reviewer_id[1])) = 3

\* C13: Logout clears the reviewer id and current_idx and writes to no store; the
\* login that follows starts from the store of the reviewer who logs in, never
\* from the index the session before it had reached.
C13_LogoutForgets ==
  [][/\ last'.op = "logout" =>
          /\ Reviewing
          /\ reviewer_id' = None
          /\ current_idx' = None
          /\ db' = db
     /\ (reviewer_id = None /\ Reviewing') =>
          current_idx' = Some(ResumeIndex(load_verdicts(db', reviewer_id'[1])))]_vars

\* "a" reviewed every record and logged out at the last index; "b" has logged in
\* after that and is at index 0
C13_Witness ==
  /\ last.op = "login"
  /\ reviewer_id = Some(<<"b">>)
  /\ current_idx = Some(0)
  /\ IdsOf(<<"a">>) = 1..total

\* C14: from index i, Prev gives max(0, i - 1); Skip and Save & Next give i + 1 when
\* i < total - 1 and i otherwise; Go with the target t gives t brought into
\* 1..total, minus 1; Jump-to-next-unreviewed gives the first unreviewed record's
\* index and is offered only when a record is unreviewed; none of them changes the
\* reviewer id.
C14_NavigationTargets ==
  [][(Reviewing /\ last'.op \in NavOps \cup {"save"}) =>
       LET i == current_idx[1]
           v == load_verdicts(db, reviewer_id[1])
       IN  /\ last'.op = "prev" =>
                current_idx' = Some(IF i - 1 > 0 THEN i - 1 ELSE 0)
           /\ last'.op \in {"skip", "save"} =>
                current_idx' = Some(IF i < total - 1 THEN i + 1 ELSE i)
           /\ last'.op = "go" =>
                \/ last'.typed < 1 /\ current_idx' = Some(0)
                \/ last'.typed > total /\ current_idx' = Some(total - 1)
                \/ last'.typed \in 1..total /\ current_idx' = Some(last'.typed - 1)
           /\ last'.op = "jump_unrev" =>
                /\ Unreviewed(v, total) # {}
                /\ current_idx' = Some(Least(Unreviewed(v, total)) - 1)
           /\ reviewer_id' = reviewer_id]_vars

\* Go was clicked with a target above the number of records
C14_Witness ==
  /\ last.op = "go"
  /\ last.typed = total + 1
  /\ current_idx = Some(total - 1)

\* C15: Save & Next at index i writes exactly one entry, the one of review_id
\* i + 1, into the store of the logged-in reviewer, and leaves every other entry
\* of that store and every other store as it was; so it does at the last index,
\* where the index stays.
C15_SaveWritesOneEntry ==
  [][(Reviewing /\ last'.op = "save") =>
       LET p == reviewer_id[1]
           k == current_idx[1] + 1
       IN  /\ last'.review_id = k
           /\ \E r \in db'[p].rows :
                /\ r.review_id = k /\ r.verdict = last'.verdict
                /\ r.reviewed_at = isoformat(now)
                /\ db'[p].rows = {x \in db[p].rows : x.review_id # k} \cup {r}
           /\ \A q \in StoreIds \ {p} : db'[q] = db[q]]_vars

\* Save & Next was clicked at the last index, in a store that held an imported
\* entry and a saved one for other records
C15_Witness ==
  /\ last.op = "save"
  /\ last.review_id = total
  /\ current_idx = Some(total - 1)
  /\ Cardinality(IdsOf(reviewer_id[1])) = 3

\* the entry load_all holds for an entry e of a document: notes and reviewed_at are
\* empty when e has none
EntryOf(e) ==
  [verdict |-> e.verdict,
   notes |-> IF "notes" \in DOMAIN e THEN e.notes ELSE "",
   reviewed_at |-> IF "reviewed_at" \in DOMAIN e THEN e.reviewed_at ELSE ""]

\* import has merged the entries es (no review_id twice) into the map v0, giving
\* the map v1 and the count n
Merged(v0, es, v1, n) ==
  LET ids == {es[j].review_id : j \in 1..Len(es)}
  IN  /\ DOMAIN v1 = DOMAIN v0 \cup ids
      /\ \A j \in 1..Len(es) : v1[es[j].review_id] = EntryOf(es[j])
      /\ \A k \in DOMAIN v0 \ ids : v1[k] = v0[k]
      /\ n = Len(es)

\* C16: the import of a well-formed document merges by review_id: every review_id
\* of the document then maps to the verdict, notes and reviewed_at of the
\* document's entry (empty where the entry has none), every other entry is as it
\* was, and the count returned is the number of entries of the document.  It holds
\* of the import a login performs and of the import of any well-formed upload into
\* the store as it is.
C16_ImportMerges ==
  [][/\ reviewer_id # None =>
          \A u \in Uploads :
            WellFormed(u) =>
              LET p == reviewer_id[1]
                  imp == import_verdicts_json(db, p, u)
              IN  /\ ~imp.raised
                  /\ Merged(load_verdicts(db, p), u.doc.verdicts,
                            load_verdicts(imp.db, p), imp.count)
     /\ (last'.op = "login" /\ last'.accepted /\ last'.imported /\ ~last'.raised) =>
          \E u \in Uploads :
            /\ WellFormed(u)
            /\ Merged(load_verdicts(db, reviewer_id'[1]), u.doc.verdicts,
                      load_verdicts(db', reviewer_id'[1]), last'.count)]_vars

\* a login has imported the backup into a store that held another verdict for a
\* record of the backup and a verdict for a record the backup does not have
C16_Witness ==
  /\ last.op = "login" /\ last.imported /\ ~last.raised /\ ~last.fresh
  /\ last.count = 2
  /\ LET v == load_verdicts(db, reviewer_id[1])
     IN  /\ DOMAIN v = {1, 2, total + 1}
         /\ v[1].reviewed_at = "" /\ v[2].reviewed_at # ""

\* C17: every entry of every store has a verdict of the fixed set: fabricated,
\* citation_error, unsure and, where the deployment has it, correct; whatever
\* saves and imports produced the store.
C17_VerdictsEnumerated ==
  \A p \in StoreIds : \A r \in db[p].rows :
    r.verdict \in {verdict_options[i] : i \in 1..Len(verdict_options)} \cup {"correct"}

\* C18: every stored review_id is one of 1..total, so the number of reviewed
\* records never exceeds total and get_next_unreviewed gives "none" exactly when
\* that number equals total.
C18_IdsWithinSample ==
  \A p \in StoreIds :
    LET v == load_verdicts(db, p)
    IN  /\ DOMAIN v \subseteq 1..total
        /\ Cardinality(DOMAIN v) <= total
        /\ get_next_unreviewed(v, total) = 0 <=> Cardinality(DOMAIN v) = total

\* the words of a name: its characters in lower case, without the whitespace
\* before the first and after the last word, and with one space for every run of
\* whitespace between two words
RECURSIVE WordsFrom(_, _)
WordsFrom(s, i) ==
  IF i > Len(s) THEN << >>
  ELSE LET inner == /\ i > 1 /\ s[i - 1] \notin Whitespace
                    /\ \E j \in (i + 1)..Len(s) : s[j] \notin Whitespace
       IN  (IF s[i] \notin Whitespace THEN <<lower_char(s[i])>>
            ELSE IF inner THEN <<" ">> ELSE << >>) \o WordsFrom(s, i + 1)

Words(s) == WordsFrom(s, 1)

\* C19: two non-empty names that differ only in case, in whitespace before or
\* after, or in the number of whitespace characters between two words give the
\* same reviewer id and the same store.
C19_NamesCollapse ==
  \A n \in TypedNames :
    (~Blank(n) /\ reviewer_id = Some(normalise(n))) =>
      \A m \in TypedNames :
        Words(m) = Words(n) =>
          /\ normalise(m) = reviewer_id[1]
          /\ get_verdicts_db(normalise(m)) = get_verdicts_db(reviewer_id[1])

\* C20: a login that supplies an uploaded document imports it before the session
\* is Reviewing: the session never enters Reviewing after such a login with the
\* document not applied, also when the import fails.  The session enters
\* Reviewing by the login itself, or by the script run that follows a login whose
\* import raised.
C20_ImportBeforeReviewing ==
  [][(~Reviewing /\ Reviewing') =>
       /\ (last'.op = "login" /\ last'.imported) => ~last'.raised
       /\ (last'.op = "rerun" /\ last.op = "login" /\ last.imported) => ~last.raised]_vars

\* C21: the set of reviewed review_ids of a reviewer never shrinks: whatever is
\* done (save, import, navigation, the init_verdicts_db of every script run,
\* export, logout, login again), every review_id load_verdicts gives for a
\* reviewer is given in the state that follows.
C21_ReviewedNeverShrinks ==
  [][\A p \in StoreIds :
       DOMAIN load_verdicts(db, p) \subseteq DOMAIN load_verdicts(db', p)]_vars

\* a reviewer who had saved a verdict and logged out has logged in again, with a
\* backup that holds other records, and the saved record is still there
C21_Witness ==
  /\ last.op = "login" /\ last.accepted /\ last.imported /\ ~last.raised /\ ~last.fresh
  /\ \E r \in db[reviewer_id[1]].rows : r.review_id = 2 /\ r.reviewed_at = isoformat(0)

\* the number of reviewed records of the logged-in reviewer
reviewed_count == Cardinality(DOMAIN load_verdicts(db, reviewer_id[1]))

\* every record of the sample has a verdict and get_next_unreviewed gives "none"
AllReviewed ==
  /\ 1..total \subseteq DOMAIN load_verdicts(db, reviewer_id[1])
  /\ get_next_unreviewed(load_verdicts(db, reviewer_id[1]), total) = 0

\* C22: when the reviewer clicks Jump-to-next-unreviewed and Save & Next in turn,
\* from any Reviewing state, every such save makes the number of reviewed records
\* larger by one and after at most total saves every record of 1..total is
\* reviewed and get_next_unreviewed gives "none"; and total Save & Next in a row
\* from index 0 of a fresh session review every record.
C22_Progress ==
  /\ [][(last.plan = "alternate" /\ last'.op = "save" /\ last'.saved > last.saved) =>
          reviewed_count' = reviewed_count + 1]_vars
  /\ [](last.plan = "consecutive" /\ last.saved = total => AllReviewed)
  /\ <>AllReviewed

\* the reviewer started at the last index of a store that held only a record
\* beyond the sample, and has reviewed every record by jumping and saving in turn
C22_Witness ==
  /\ last.plan = "alternate" /\ last.op = "save" /\ last.saved = total
  /\ AllReviewed
  /\ reviewed_count = total + 1

====
